---- MODULE Spec2Model ----
(***************************************************************************)
(* Model of the rustdoc invocation builder of run-make-support             *)
(* (src/tools/run-make-support/src/rustdoc.rs).                            *)
(*                                                                         *)
(* A string is a sequence of characters, each character a one-character    *)
(* TLA+ string.  An OS string (OsStr, Path) is a sequence of the same      *)
(* characters that may also hold INVALID, a unit that is not valid         *)
(* Unicode; to_string_lossy and Path::display turn it into REPLACEMENT.    *)
(* A byte is a number in 0..255.  Option<T> is a sequence of at most one   *)
(* element: None == <<>>, Some(x) == <<x>>.                                *)
(***************************************************************************)
EXTENDS Integers, Sequences, FiniteSets, TLC

\* ---------------------------------------------------------------- bounds
\* Longest chain of configuration calls explored on one builder.
MaxCalls == 4

\* ------------------------------------------------------------ characters
INVALID == "<FF>"
REPLACEMENT == "<U+FFFD>"

\* char::is_whitespace: the Unicode White_Space characters that the inputs use.
WhiteSpace == {" ", "\t", "\n", "\r"}

is_whitespace(c) == c \in WhiteSpace

\* OsStr::to_string_lossy / Path::to_string_lossy / Path::display.
to_string_lossy(s) ==
  [i \in 1..Len(s) |-> IF s[i] = INVALID THEN REPLACEMENT ELSE s[i]]

None == <<>>
Some(x) == <<x>>

\* ------------------------------------------------------- literal strings
S_L == <<"-", "L">>
S_extern == <<"-", "-", "e", "x", "t", "e", "r", "n">>
S_o == <<"-", "o">>
S_out_dir == <<"-", "-", "o", "u", "t", "-", "d", "i", "r">>
S_at == <<"@">>
S_eq == <<"=">>
S_edition == <<"-", "-", "e", "d", "i", "t", "i", "o", "n">>
S_target_eq == <<"-", "-", "t", "a", "r", "g", "e", "t", "=">>
S_crate_type == <<"-", "-", "c", "r", "a", "t", "e", "-", "t", "y", "p", "e">>
S_crate_name == <<"-", "-", "c", "r", "a", "t", "e", "-", "n", "a", "m", "e">>
S_output_format ==
  <<"-", "-", "o", "u", "t", "p", "u", "t", "-", "f", "o", "r", "m", "a", "t">>

\* ------------------------------------------------------------ the inputs
V_foo == <<"f", "o", "o">>
V_foo_bar == <<"f", "o", "o", "_", "b", "a", "r">>
V_foo_space_bar == <<"f", "o", "o", " ", "b", "a", "r">>
V_foo_slash_bar == <<"f", "o", "o", "/", "b", "a", "r">>
V_foo_backslash_bar == <<"f", "o", "o", "\\", "b", "a", "r">>
V_foo_tab_bar == <<"f", "o", "o", "\t", "b", "a", "r">>
V_2021 == <<"2", "0", "2", "1">>
V_html == <<"h", "t", "m", "l">>
V_lib == <<"l", "i", "b">>
V_main_rs == <<"m", "a", "i", "n", ".", "r", "s">>
V_triple ==
  <<"x", "8", "6", "_", "6", "4", "-", "u", "n", "k", "n", "o", "w", "n", "-",
    "l", "i", "n", "u", "x", "-", "g", "n", "u">>
V_out == <<"o", "u", "t">>
V_bad_path == <<"d", INVALID, "x">>
V_rustdoc_exe == <<"/", "b", "/", "r", "u", "s", "t", "d", "o", "c">>
V_rpath == <<"/", "b", "/", "l", "i", "b">>
V_rpath_bad == <<"/", "b", INVALID>>

CrateNames ==
  {V_foo_bar, V_foo_space_bar, V_foo_slash_bar, V_foo_backslash_bar,
   V_foo_tab_bar}
ExternPaths == {V_bad_path}
InputPaths == {V_main_rs, V_bad_path}
OutputPaths == {V_out}
ArgFilePaths == {V_bad_path}
SearchPaths == {V_lib}
Editions == {V_2021}
Targets == {V_triple, <<>>}
CrateTypes == {V_lib}
CrateNameValues == {V_foo}
OutputFormats == {V_html}
StdinInputs == {<<104, 105>>, <<0>>}

\* The process environment the constructors read.
Envs ==
  { [RUSTDOC |-> V_rustdoc_exe, TARGET_RPATH_DIR |-> V_rpath],
    [RUSTDOC |-> V_rustdoc_exe, TARGET_RPATH_DIR |-> V_rpath_bad] }

\* ----------------------------------------------------------------- state
VARIABLES
  env,       \* the process environment (read at construction)
  ctor,      \* the constructor that built the Rustdoc
  cmd,       \* Rustdoc.cmd: [program, args, stdin, host_rpath]
  calls,     \* the configuration calls that returned, in order
  panicked   \* an assert! failed: the chain is aborted

vars == <<env, ctor, cmd, calls, panicked>>

\* ------------------------------------------------------ crate::Command
Command_new(program) ==
  [program |-> program, args |-> <<>>, stdin |-> None, host_rpath |-> FALSE]

Command_arg(c, a) == [c EXCEPT !.args = Append(@, a)]

Command_set_stdin(c, bytes) == [c EXCEPT !.stdin = Some(bytes)]

set_host_rpath(c) == [c EXCEPT !.host_rpath = TRUE]

env_var(name) == env[name]

env_var_os(name) == env[name]

\* ---------------------------------------------------------- construction
setup_common_wrong_var == set_host_rpath(Command_new(env_var("TARGET_RPATH_DIR")))

setup_common == set_host_rpath(Command_new(env_var("RUSTDOC")))

new_split_flag ==
  Command_arg(Command_arg(setup_common, S_L),
              to_string_lossy(env_var_os("TARGET_RPATH_DIR")))

new ==
  Command_arg(setup_common,
              S_L \o to_string_lossy(env_var_os("TARGET_RPATH_DIR")))

bare_with_default_flag == new

bare == setup_common

bare_rustdoc == bare

rustdoc == new

Init ==
  /\ env \in Envs
  /\ ctor \in {"bare_rustdoc", "rustdoc"}
  /\ cmd = IF ctor = "bare_rustdoc" THEN bare_rustdoc ELSE rustdoc
  /\ calls = <<>>
  /\ panicked = FALSE

\* ------------------------------------------------------------- the calls
\* A call is accepted while the chain is alive; it is logged when it returns.
Callable == ~panicked /\ Len(calls) < MaxCalls

Returned(op, a, b) ==
  /\ calls' = Append(calls, [op |-> op, a |-> a, b |-> b, at |-> Len(cmd.args)])
  /\ UNCHANGED <<env, ctor, panicked>>

Panic ==
  /\ panicked' = TRUE
  /\ UNCHANGED <<env, ctor, calls>>

\* The closure of the assert! in extern_.
BadCrateNameChar(c) == is_whitespace(c) \/ c = "\\" \/ c = "/"

\* str::contains applied to the closure of the assert!.
contains_bad_char(s) == \E i \in 1..Len(s) : BadCrateNameChar(s[i])

extern_whitespace_only(crate_name, path) ==
  /\ Callable
  /\ IF \E i \in 1..Len(crate_name) : is_whitespace(crate_name[i])
       THEN /\ cmd' = cmd
            /\ Panic
       ELSE /\ cmd' = Command_arg(Command_arg(cmd, S_extern),
                                  crate_name \o S_eq \o to_string_lossy(path))
            /\ Returned("extern_", crate_name, path)

extern_flag_before_assert(crate_name, path) ==
  /\ Callable
  /\ IF contains_bad_char(crate_name)
       THEN /\ cmd' = Command_arg(cmd, S_extern)
            /\ Panic
       ELSE /\ cmd' = Command_arg(Command_arg(cmd, S_extern),
                                  crate_name \o S_eq \o to_string_lossy(path))
            /\ Returned("extern_", crate_name, path)

extern_(crate_name, path) ==
  /\ Callable
  /\ IF contains_bad_char(crate_name)
       THEN /\ cmd' = cmd
            /\ Panic
       ELSE /\ cmd' = Command_arg(Command_arg(cmd, S_extern),
                                  crate_name \o S_eq \o to_string_lossy(path))
            /\ Returned("extern_", crate_name, path)

input(path) ==
  /\ Callable
  /\ cmd' = Command_arg(cmd, path)
  /\ Returned("input", path, <<>>)

output(path) ==
  /\ Callable
  /\ cmd' = Command_arg(Command_arg(cmd, S_o), path)
  /\ Returned("output", path, <<>>)

out_dir(path) ==
  /\ Callable
  /\ cmd' = Command_arg(Command_arg(cmd, S_out_dir), path)
  /\ Returned("out_dir", path, <<>>)

arg_file(path) ==
  /\ Callable
  /\ cmd' = Command_arg(cmd, S_at \o to_string_lossy(path))
  /\ Returned("arg_file", path, <<>>)

stdin_keep_first(bytes) ==
  /\ Callable
  /\ cmd' = IF cmd.stdin = None THEN Command_set_stdin(cmd, bytes) ELSE cmd
  /\ Returned("stdin", bytes, <<>>)

stdin_as_argument(bytes) ==
  /\ Callable
  /\ cmd' = Command_arg(Command_set_stdin(cmd, bytes), <<"-">>)
  /\ Returned("stdin", bytes, <<>>)

stdin(bytes) ==
  /\ Callable
  /\ cmd' = Command_set_stdin(cmd, bytes)
  /\ Returned("stdin", bytes, <<>>)

edition_single_token(e) ==
  /\ Callable
  /\ cmd' = Command_arg(cmd, S_edition \o S_eq \o e)
  /\ Returned("edition", e, <<>>)

edition(e) ==
  /\ Callable
  /\ cmd' = Command_arg(Command_arg(cmd, S_edition), e)
  /\ Returned("edition", e, <<>>)

target_two_tokens(t) ==
  /\ Callable
  /\ cmd' = Command_arg(Command_arg(cmd, <<"-", "-", "t", "a", "r", "g", "e", "t">>), t)
  /\ Returned("target", t, <<>>)

target(t) ==
  /\ Callable
  /\ cmd' = Command_arg(cmd, S_target_eq \o t)
  /\ Returned("target", t, <<>>)

crate_type(t) ==
  /\ Callable
  /\ cmd' = Command_arg(Command_arg(cmd, S_crate_type), t)
  /\ Returned("crate_type", t, <<>>)

crate_name(name) ==
  /\ Callable
  /\ cmd' = Command_arg(Command_arg(cmd, S_crate_name), name)
  /\ Returned("crate_name", name, <<>>)

library_search_path_dedup(path) ==
  /\ Callable
  /\ cmd' = IF \E i \in 1..Len(cmd.args) - 1 :
                  cmd.args[i] = S_L /\ cmd.args[i + 1] = path
              THEN cmd
              ELSE Command_arg(Command_arg(cmd, S_L), path)
  /\ Returned("library_search_path", path, <<>>)

library_search_path(path) ==
  /\ Callable
  /\ cmd' = Command_arg(Command_arg(cmd, S_L), path)
  /\ Returned("library_search_path", path, <<>>)

output_format(format) ==
  /\ Callable
  /\ cmd' = Command_arg(Command_arg(cmd, S_output_format), format)
  /\ Returned("output_format", format, <<>>)

Next ==
  \/ \E n \in CrateNames, p \in ExternPaths : extern_(n, p)
  \/ \E p \in InputPaths : input(p)
  \/ \E p \in OutputPaths : output(p)
  \/ \E p \in OutputPaths : out_dir(p)
  \/ \E p \in ArgFilePaths : arg_file(p)
  \/ \E b \in StdinInputs : stdin(b)
  \/ \E e \in Editions : edition(e)
  \/ \E t \in Targets : target(t)
  \/ \E t \in CrateTypes : crate_type(t)
  \/ \E n \in CrateNameValues : crate_name(n)
  \/ \E p \in SearchPaths : library_search_path(p)
  \/ \E f \in OutputFormats : output_format(f)

Spec == Init /\ [][Next]_vars

\* ------------------------------------------------------------ properties
IsPrefix(s, t) == Len(s) <= Len(t) /\ SubSeq(t, 1, Len(s)) = s

HasBadChar(name) ==
  \E i \in 1..Len(name) : name[i] \in WhiteSpace \cup {"/", "\\"}

\* The tokens one call appends according to the table of configuration
\* operations (spec section 4.1).
Documented(call) ==
  CASE call.op = "extern_" ->
         <<S_extern, call.a \o S_eq \o to_string_lossy(call.b)>>
    [] call.op = "input" -> <<call.a>>
    [] call.op = "output" -> <<S_o, call.a>>
    [] call.op = "out_dir" -> <<S_out_dir, call.a>>
    [] call.op = "arg_file" -> <<S_at \o to_string_lossy(call.a)>>
    [] call.op = "stdin" -> <<>>
    [] call.op = "edition" -> <<S_edition, call.a>>
    [] call.op = "target" -> <<S_target_eq \o call.a>>
    [] call.op = "crate_type" -> <<S_crate_type, call.a>>
    [] call.op = "crate_name" -> <<S_crate_name, call.a>>
    [] call.op = "library_search_path" -> <<S_L, call.a>>
    [] call.op = "output_format" -> <<S_output_format, call.a>>

RECURSIVE DocumentedAll(_)
DocumentedAll(cs) ==
  IF cs = <<>> THEN <<>> ELSE Documented(Head(cs)) \o DocumentedAll(Tail(cs))

\* The arguments the constructor in use leaves behind.
InitialArgs == IF ctor = "bare_rustdoc" THEN bare_rustdoc.args ELSE rustdoc.args

\* A step in which a call of `op` returned.
CallStep(op) ==
  /\ Len(calls') = Len(calls) + 1
  /\ calls'[Len(calls')].op = op

AnyCallStep == Len(calls') = Len(calls) + 1

PanicStep == ~panicked /\ panicked'

OpsOf(cs) == [i \in 1..Len(cs) |-> cs[i].op]

StdinCalls == {i \in 1..Len(calls) : calls[i].op = "stdin"}

LastStdinCall == CHOOSE i \in StdinCalls : \A j \in StdinCalls : j <= i

\* C1: after any chain of configuration calls the argument sequence is the
\* constructor's initial arguments followed by the tokens each call is
\* documented to append, in call order; and every step keeps the previous
\* argument sequence as a prefix of the next one.
C1_OrderPreserved ==
  /\ [](cmd.args = InitialArgs \o DocumentedAll(calls))
  /\ [][IsPrefix(cmd.args, cmd'.args)]_vars

C1_Witness ==
  /\ ctor = "rustdoc"
  /\ Len(calls) >= 4
  /\ OpsOf(SubSeq(calls, 1, 4)) =
       <<"library_search_path", "extern_", "library_search_path", "arg_file">>
  /\ calls[1].a = calls[3].a
  /\ Len(cmd.args) = 8

\* C2: extern_ panics exactly when the name holds a whitespace or a path
\* separator character; otherwise it appends "--extern" and "name=path".
\* (extern_ ends in a panic or in a logged return: only such steps are its.)
C2_ExternPanicsIffBadName ==
  [][\A n \in CrateNames, p \in ExternPaths :
       ((PanicStep \/ CallStep("extern_")) /\ extern_(n, p)) =>
         /\ panicked' <=> HasBadChar(n)
         /\ HasBadChar(V_foo_space_bar) /\ HasBadChar(V_foo_slash_bar)
         /\ ~HasBadChar(V_foo_bar)
         /\ ~HasBadChar(n) =>
              cmd'.args = cmd.args \o <<S_extern, n \o S_eq \o to_string_lossy(p)>>
    ]_vars

C2_Witness ==
  /\ Len(calls) >= 1
  /\ calls[Len(calls)].op = "extern_"
  /\ calls[Len(calls)].a = V_foo_bar
  /\ panicked

\* C3: a Rustdoc built by the default constructor always has the single token
\* "-L<TARGET_RPATH_DIR>" as its first argument, whatever is called later.
C3_DefaultSearchPathFirst ==
  ctor = "rustdoc" =>
    /\ Len(cmd.args) >= 1
    /\ cmd.args[1] = S_L \o to_string_lossy(env.TARGET_RPATH_DIR)
    /\ Len(calls) = 0 => Len(cmd.args) = 1

C3_Witness ==
  /\ ctor = "rustdoc"
  /\ Len(calls) = MaxCalls
  /\ env.TARGET_RPATH_DIR = V_rpath_bad
  /\ calls[1].op = "library_search_path"

\* C4: the stdin payload is unset while stdin was never called, and is
\* otherwise exactly the payload of the last stdin call.
C4_LastStdinWins ==
  IF StdinCalls = {}
    THEN cmd.stdin = None
    ELSE cmd.stdin = Some(calls[LastStdinCall].a)

C4_Witness ==
  /\ Len(calls) >= 3
  /\ calls[1].op = "stdin"
  /\ calls[2].op = "edition"
  /\ calls[3].op = "stdin"
  /\ calls[1].a # calls[3].a

\* C5: a stdin call changes neither the arguments nor the executable path,
\* and every other call leaves the stdin payload as it was.
C5_StdinFrame ==
  [][/\ CallStep("stdin") =>
          cmd'.args = cmd.args /\ cmd'.program = cmd.program
     /\ (AnyCallStep /\ ~CallStep("stdin")) => cmd'.stdin = cmd.stdin
     /\ PanicStep => cmd'.stdin = cmd.stdin
    ]_vars

C5_Witness ==
  /\ Len(calls) >= 3
  /\ calls[1].op = "input"
  /\ calls[2].op = "stdin"
  /\ calls[3].op = "target"
  /\ cmd.stdin # None

\* C6: target(t) appends the single token "--target=" followed by t.
C6_TargetOneToken ==
  [][\A t \in Targets :
       target(t) =>
         /\ cmd'.args = Append(cmd.args, S_target_eq \o t)
         /\ Len(cmd'.args) = Len(cmd.args) + 1
    ]_vars

C6_Witness ==
  /\ Len(calls) >= 2
  /\ calls[1].op = "target" /\ calls[1].a = V_triple
  /\ calls[2].op = "target" /\ calls[2].a = <<>>

\* C7: bare().crate_name("foo").edition("2021").input("main.rs")
\* .output_format("html") yields exactly the seven documented tokens and no
\* stdin payload.
C7_Chain ==
  /\ ctor = "bare_rustdoc"
  /\ OpsOf(calls) = <<"crate_name", "edition", "input", "output_format">>
  /\ calls[1].a = V_foo
  /\ calls[2].a = V_2021
  /\ calls[3].a = V_main_rs
  /\ calls[4].a = V_html

C7_EndToEnd ==
  C7_Chain =>
    /\ cmd.args = <<S_crate_name, V_foo, S_edition, V_2021, V_main_rs,
                    S_output_format, V_html>>
    /\ cmd.stdin = None

C7_Witness == C7_Chain /\ ~panicked

\* C8: before the first call a bare Rustdoc has no argument and no stdin
\* payload, and it is the default Rustdoc without its "-L" token.
C8_BareIsEmpty ==
  (ctor = "bare_rustdoc" /\ calls = <<>>) =>
    /\ cmd.args = <<>>
    /\ cmd.stdin = None
    /\ Len(rustdoc.args) = 1
    /\ cmd = [rustdoc EXCEPT !.args = <<>>]

C8_Witness == ctor = "bare_rustdoc" /\ calls = <<>> /\ ~panicked

\* C9: the executable path is the RUSTDOC value in every reachable state.
C9_ProgramImmutable ==
  /\ [](cmd.program = env.RUSTDOC)
  /\ [][cmd'.program = cmd.program]_vars

C9_Witness ==
  /\ panicked
  /\ Cardinality({i \in 1..Len(calls) : calls[i].op = "stdin"}) >= 2
  /\ cmd.program = V_rustdoc_exe

\* C10: a failing extern_ leaves the arguments and the stdin payload as they
\* were, and each extern_ call that returned left "--extern" immediately
\* followed by "name=path" with a name free of whitespace and separators.
C10_ExternPaired ==
  \A i \in 1..Len(calls) :
    calls[i].op = "extern_" =>
      /\ Len(cmd.args) >= calls[i].at + 2
      /\ cmd.args[calls[i].at + 1] = S_extern
      /\ cmd.args[calls[i].at + 2] =
           calls[i].a \o S_eq \o to_string_lossy(calls[i].b)
      /\ ~HasBadChar(calls[i].a)

C10_FailBeforeAppend ==
  /\ []C10_ExternPaired
  /\ [][PanicStep => (cmd'.args = cmd.args /\ cmd'.stdin = cmd.stdin)]_vars

C10_Witness ==
  /\ panicked
  /\ Len(calls) >= 2
  /\ calls[1].op = "extern_"
  /\ calls[2].op = "stdin"

====
